---------------------------- MODULE Spec2Model ----------------------------
(***************************************************************************)
(* EQlib: System (DoF indexing, sparsity pattern, serial and pipelined     *)
(* assembly, Newton driver) and Assemble (parallel_reduce assembly).       *)
(*                                                                         *)
(* Indices are 0-based as in the source: vectors are functions on 0..n-1.  *)
(* Sequences of elements and index tables are 1-based TLA+ sequences; the  *)
(* element with source index i is element_dofs[i + 1].                     *)
(* Values are integers, so sums are exact and order independent.           *)
(***************************************************************************)
EXTENDS Integers, Sequences, FiniteSets, TLC

(* ------------------------------ bounds -------------------------------- *)
MaxElements == 2
MaxDofs == 3
MaxElemDofs == 2
MaxSlots == 4
MaxOps == 2
MaxIterOpt == 2
NbThreads == 2
MaxReduceElements == 4

(* ---------------------------- input domains --------------------------- *)
Dofs == 1..MaxDofs

DofLists == UNION {[1..k -> Dofs] : k \in 0..MaxElemDofs}

RECURSIVE TotalDofs(_, _)
TotalDofs(eds, i) ==
    IF i > Len(eds) THEN 0 ELSE Len(eds[i]) + TotalDofs(eds, i + 1)

\* at most MaxElements elements with at most MaxSlots DoF entries in all
ElementLists ==
    {eds \in UNION {[1..n -> DofLists] : n \in 0..MaxElements} :
        TotalDofs(eds, 1) <= MaxSlots}

\* values an element may return in local_lhs / local_rhs
OutVals == {1, 2}

\* what an uninitialised double / int may hold
UninitVals == {0, 3}

UninitReasons == {-1, 0, 3}

SolverNames == {"ldlt", "lsmr", "qr"}

\* threads of the tbb scheduler; thread 0 calls Assemble::parallel
Threads == 0..(NbThreads - 1)

\* value arrays are named by the thread that owns them; this names the
\* arrays of the system's own lhs and rhs
SysArrays == NbThreads

VARIABLES
    \* inputs of the constructor and the element / DoF objects
    element_dofs,       \* Element::dofs() of every element
    dof_fixed,          \* set of DoFs with isfixed()
    dof_target,         \* Dof::target()
    dof_delta,          \* Dof::delta()
    dof_residual,       \* Dof::residual()
    elem_lhs,           \* local_lhs returned by Element::compute
    elem_rhs,           \* local_rhs returned by Element::compute
    linear_solver,      \* options["linear_solver"]
    \* System members
    m_dofs,
    m_dof_indices,
    m_nb_free_dofs,
    m_nb_fixed_dofs,
    m_index_table,
    m_pattern,
    m_col_nonzeros,
    m_lhs,
    m_rhs,
    m_x,
    m_target,
    m_residual,
    m_stopping_reason,
    m_solver,
    \* locals of the running operation
    caller,             \* who called compute: "top" or "solve"
    index,              \* loop index i of compute / index of the pipeline
    tokens,             \* pipeline: stage of the token of every element
    opts,               \* solve: lambda, maxiter, rtol, xtol
    iteration,          \* solve: loop counter
    \* Assemble::parallel
    tls,                \* m_lhs_values / m_rhs_values of every thread
    bodies,             \* Assemble objects: whose value arrays each maps
    live,               \* the Assemble objects not yet joined or returned
    tasks,              \* start_reduce tasks of tbb::parallel_reduce
    fins,               \* finish_reduce continuations
    \* history
    analyze_calls,      \* analyze_pattern calls made on m_solver
    set_matrix_calls,   \* set_matrix calls of the current solve call
    solver_solve_calls, \* solver solve calls of the current solve call
    nb_assemblies,      \* assemblies started by the current solve call
    nb_updates,         \* DoF update loops run by the current solve call
    delta_before,       \* dof_delta when the linear solve was called
    delta_start,        \* dof_delta when the current solve call began
    outcome,            \* how the last solve call ended
    solver_log,         \* calls on m_solver and the assemblies of solve
    op,                 \* the running or last finished operation
    prev_op,            \* the operation before it
    asm_start,          \* <<m_lhs, m_rhs>> when the current assembly began
    asm_contribs,       \* element contributions added by this assembly
    \* control
    pc,
    ops_left

cfgVars == <<element_dofs, dof_fixed, dof_target, elem_lhs, elem_rhs,
             linear_solver>>

structVars == <<m_dofs, m_dof_indices, m_nb_free_dofs, m_nb_fixed_dofs,
                m_index_table, m_pattern, m_col_nonzeros, m_solver>>

localVars == <<caller, index, tokens, opts, iteration>>

reduceVars == <<tls, bodies, live, tasks, fins>>

solveCounts == <<set_matrix_calls, solver_solve_calls, nb_assemblies,
                 nb_updates, delta_before, delta_start, outcome>>

solveHist == <<solveCounts, solver_log>>

asmHist == <<op, prev_op, asm_start, asm_contribs>>

vars == <<cfgVars, structVars, dof_delta, dof_residual, m_lhs, m_rhs, m_x,
          m_target, m_residual, m_stopping_reason, localVars, reduceVars,
          analyze_calls, solveHist, asmHist, pc, ops_left>>

(* ------------------------ constructor helpers -------------------------- *)

\* all DoFs of all elements in scan order (System.h:85-88)
RECURSIVE FlatDofs(_, _)
FlatDofs(eds, i) ==
    IF i > Len(eds) THEN <<>> ELSE eds[i] \o FlatDofs(eds, i + 1)

\* a scan that forgets to skip the DoFs it has seen
RECURSIVE ScanDofsNoSkip(_, _, _, _, _, _)
ScanDofsNoSkip(flat, i, dof_set, free_dofs, fixed_dofs, fixedset) ==
    IF i > Len(flat) THEN <<free_dofs, fixed_dofs>>
    ELSE IF flat[i] \in fixedset
         THEN ScanDofsNoSkip(flat, i + 1, dof_set \cup {flat[i]}, free_dofs,
                             Append(fixed_dofs, flat[i]), fixedset)
         ELSE ScanDofsNoSkip(flat, i + 1, dof_set \cup {flat[i]},
                             Append(free_dofs, flat[i]), fixed_dofs, fixedset)

\* the dedup scan: returns <<free_dofs, fixed_dofs>>
RECURSIVE ScanDofs(_, _, _, _, _, _)
ScanDofs(flat, i, dof_set, free_dofs, fixed_dofs, fixedset) ==
    IF i > Len(flat) THEN <<free_dofs, fixed_dofs>>
    ELSE LET dof == flat[i] IN
         IF dof \in dof_set
         THEN ScanDofs(flat, i + 1, dof_set, free_dofs, fixed_dofs, fixedset)
         ELSE IF dof \in fixedset
              THEN ScanDofs(flat, i + 1, dof_set \cup {dof}, free_dofs,
                            Append(fixed_dofs, dof), fixedset)
              ELSE ScanDofs(flat, i + 1, dof_set \cup {dof},
                            Append(free_dofs, dof), fixed_dofs, fixedset)

\* an order that puts the fixed DoFs first
JoinDofsFixedFirst(free_dofs, fixed_dofs) == fixed_dofs \o free_dofs

\* m_dofs: the free DoFs, then the fixed DoFs (System.h:110-113)
JoinDofs(free_dofs, fixed_dofs) == free_dofs \o fixed_dofs

\* m_dof_indices[m_dofs[i]] = i for i = 0..size-1 (later writes win)
RECURSIVE DofIndexMap(_, _, _)
DofIndexMap(dofs, i, map) ==
    IF i >= Len(dofs) THEN map
    ELSE DofIndexMap(dofs, i + 1,
            [d \in (DOMAIN map) \cup {dofs[i + 1]} |->
                IF d = dofs[i + 1] THEN i ELSE map[d]])

\* the unsorted table of one element: entry local -> {local, global}
RawTable(dofs, indices) ==
    [p \in 1..Len(dofs) |-> [local |-> p - 1, global |-> indices[dofs[p]]]]

\* a sort that leaves the entries in any order
AnyOrderTable(t) == TRUE

\* ascending by Index::operator<, which compares the global component
IsSortedTable(t) ==
    \A p \in 1..Len(t), q \in 1..Len(t) :
        p < q => ~(t[q].global < t[p].global)

\* std::sort with Index::operator< is not stable: every ascending
\* arrangement of the entries is a possible result
SortedTables(raw) ==
    {t \in [1..Len(raw) -> {raw[p] : p \in 1..Len(raw)}] :
        /\ \A p \in 1..Len(raw) : \E q \in 1..Len(raw) : t[q] = raw[p]
        /\ IsSortedTable(t)}

IndexTables(eds, indices) ==
    {tt \in [1..Len(eds) ->
                UNION {SortedTables(RawTable(eds[e], indices)) :
                          e \in 1..Len(eds)}] :
        \A e \in 1..Len(eds) :
            tt[e] \in SortedTables(RawTable(eds[e], indices))}

\* a column loop that starts behind the row and so misses the diagonal
AnalyzePatternNoDiagonal(tables, nfree) ==
    [c \in 0..(nfree - 1) |->
        {r \in 0..(nfree - 1) :
            \E e \in 1..Len(tables) :
              \E row \in 1..Len(tables[e]), col \in 1..Len(tables[e]) :
                /\ row < col
                /\ tables[e][row].global = r
                /\ tables[e][col].global = c}]

\* pattern[col] = the rows inserted by the nested row/col loops
AnalyzePattern(tables, nfree) ==
    [c \in 0..(nfree - 1) |->
        {r \in 0..(nfree - 1) :
            \E e \in 1..Len(tables) :
              \E row \in 1..Len(tables[e]), col \in 1..Len(tables[e]) :
                /\ row <= col
                /\ tables[e][row].global < nfree
                /\ tables[e][col].global < nfree
                /\ tables[e][row].global = r
                /\ tables[e][col].global = c}]

\* a build that also inserts the mirrored position of every entry
BuildLhsMirrored(pattern, nfree) ==
    [rc \in {rc \in (0..(nfree - 1)) \X (0..(nfree - 1)) :
                rc[1] \in pattern[rc[2]] \/ rc[2] \in pattern[rc[1]]} |-> 0]

\* m_lhs.insert(row, col) for every row of every pattern column; an
\* inserted coefficient is zero
BuildLhs(pattern, nfree) ==
    [rc \in {rc \in (0..(nfree - 1)) \X (0..(nfree - 1)) :
                rc[1] \in pattern[rc[2]]} |-> 0]

\* Vector(n) leaves its coefficients uninitialised
Fill(n, v) == [i \in 0..(n - 1) |-> v]

(* ------------------------------- Init ---------------------------------- *)

UsedDofs(eds) == UNION {{eds[e][l] : l \in 1..Len(eds[e])} : e \in 1..Len(eds)}

\* DoF identities are labels: a list is canonical when every DoF is first
\* used only after all smaller ones
IsCanonical(eds) ==
    LET flat == FlatDofs(eds, 1) IN
    \A i \in 1..Len(flat) :
        flat[i] = 1 \/ \E j \in 1..(i - 1) : flat[j] = flat[i] - 1

CanonicalLists == {eds \in ElementLists : IsCanonical(eds)}

\* outputs of an element with k DoFs: a k x k matrix (not symmetric) and a
\* k vector with first coefficients a and b; all coefficients differ
LocalLhs(k, a) ==
    [rc \in (0..(k - 1)) \X (0..(k - 1)) |-> a + MaxElemDofs * rc[1] + rc[2]]

LocalRhs(k, b) == [l \in 0..(k - 1) |-> b + l]

\* first coefficient of the outputs of element e when element 1 has a
Stride(e, a) == a + MaxElemDofs * MaxElemDofs * (e - 1)

\* the state before the System is constructed; the members are placeholders
InitWith(lists, solvers, lhsVals, rhsVals, targets) ==
    /\ element_dofs \in lists
    /\ dof_fixed \in SUBSET UsedDofs(element_dofs)
    /\ dof_target \in [Dofs -> targets]
    /\ \A d \in Dofs \ UsedDofs(element_dofs) : dof_target[d] = 0
    /\ dof_delta = [d \in Dofs |-> 0]
    /\ dof_residual = [d \in Dofs |-> 0]
    /\ \E a \in lhsVals :
          elem_lhs = [e \in 1..Len(element_dofs) |->
                         LocalLhs(Len(element_dofs[e]), Stride(e, a))]
    /\ \E b \in rhsVals :
          elem_rhs = [e \in 1..Len(element_dofs) |->
                         LocalRhs(Len(element_dofs[e]), Stride(e, b))]
    /\ linear_solver \in solvers
    /\ m_dofs = <<>>
    /\ m_dof_indices = <<>>
    /\ m_nb_free_dofs = 0
    /\ m_nb_fixed_dofs = 0
    /\ m_index_table = <<>>
    /\ m_pattern = <<>>
    /\ m_col_nonzeros = <<>>
    /\ m_lhs = <<>>
    /\ m_rhs = <<>>
    /\ m_x = <<>>
    /\ m_target = <<>>
    /\ m_residual = <<>>
    /\ m_stopping_reason = -1
    /\ m_solver = "null"
    /\ caller = "top"
    /\ index = 0
    /\ tokens = <<>>
    /\ opts = [lambda |-> 1, maxiter |-> 0, rtol |-> 0, xtol |-> 0]
    /\ iteration = 0
    /\ tls = [t \in Threads |-> <<<<>>, <<>>>>]
    /\ bodies = <<>>
    /\ live = {}
    /\ tasks = <<>>
    /\ fins = <<>>
    /\ analyze_calls = 0
    /\ set_matrix_calls = 0
    /\ solver_solve_calls = 0
    /\ nb_assemblies = 0
    /\ nb_updates = 0
    /\ delta_before = dof_delta
    /\ delta_start = dof_delta
    /\ outcome = "none"
    /\ solver_log = <<>>
    /\ op = "none"
    /\ prev_op = "none"
    /\ asm_start = <<m_lhs, m_rhs>>
    /\ asm_contribs = 0
    /\ pc = "new"
    /\ ops_left = MaxOps

(* ---------------------------- System::System --------------------------- *)

KnownSolvers == {"ldlt", "lsmr"}

\* The whole constructor.  With an unknown solver name the code prints
\* "error" and goes on to call analyze_pattern through the null m_solver:
\* undefined behaviour, which either crashes or returns.
Construct ==
    /\ pc = "new"
    /\ LET scan == ScanDofs(FlatDofs(element_dofs, 1), 1, {}, <<>>, <<>>,
                            dof_fixed)
           free_dofs == scan[1]
           fixed_dofs == scan[2]
           dofs == JoinDofs(free_dofs, fixed_dofs)
           nfree == Len(free_dofs)
           indices == DofIndexMap(dofs, 0, <<>>)
       IN
       /\ m_nb_free_dofs' = nfree
       /\ m_nb_fixed_dofs' = Len(fixed_dofs)
       /\ m_dofs' = dofs
       /\ m_dof_indices' = indices
       /\ m_index_table' \in IndexTables(element_dofs, indices)
       /\ m_pattern' = AnalyzePattern(m_index_table', nfree)
       /\ m_col_nonzeros' = [i \in 0..(nfree - 1) |->
                                Cardinality(m_pattern'[i])]
       /\ m_lhs' = BuildLhs(m_pattern', nfree)
       /\ \E g \in UninitVals :
            /\ m_rhs' = Fill(nfree, g)
            /\ m_x' = Fill(nfree, g)
            /\ m_target' = Fill(nfree, g)
            /\ m_residual' = Fill(nfree, g)
    /\ m_stopping_reason' \in UninitReasons
    /\ m_solver' = IF linear_solver \in KnownSolvers THEN linear_solver
                   ELSE "null"
    /\ analyze_calls' = analyze_calls + 1
    /\ solver_log' = Append(solver_log,
                            [call |-> "analyze_pattern", lhs |-> m_lhs'])
    /\ IF m_solver' = "null" THEN pc' \in {"crashed", "idle"}
                             ELSE pc' = "idle"
    /\ op' = "construct"
    /\ UNCHANGED <<cfgVars, reduceVars, dof_delta, dof_residual, localVars,
                   solveCounts, prev_op, asm_start, asm_contribs, ops_left>>

(* ------------------------- scatter of one element ---------------------- *)

\* a write to the mirrored position
LhsAddTransposed(lhs, row, col, v) ==
    IF <<col, row>> \in DOMAIN lhs
    THEN [lhs EXCEPT ![<<col, row>>] = @ + v]
    ELSE [rc \in (DOMAIN lhs) \cup {<<col, row>>} |->
             IF rc = <<col, row>> THEN v ELSE lhs[rc]]

\* a write that assigns the contribution instead of adding it
LhsAssign(lhs, row, col, v) ==
    [rc \in (DOMAIN lhs) \cup {<<row, col>>} |->
        IF rc = <<row, col>> THEN v ELSE lhs[rc]]

\* Sparse::coeffRef(row, col) += v; coeffRef inserts a missing coefficient
LhsAdd(lhs, row, col, v) ==
    IF <<row, col>> \in DOMAIN lhs
    THEN [lhs EXCEPT ![<<row, col>>] = @ + v]
    ELSE [rc \in (DOMAIN lhs) \cup {<<row, col>>} |->
             IF rc = <<row, col>> THEN v ELSE lhs[rc]]

\* inner loop: col = row .. nb_dofs - 1
RECURSIVE ScatterCols(_, _, _, _, _, _)
ScatterCols(lhs, tbl, nfree, local_lhs, row, col) ==
    IF col > Len(tbl) THEN lhs
    ELSE IF tbl[col].global >= nfree
         THEN ScatterCols(lhs, tbl, nfree, local_lhs, row, col + 1)
         ELSE ScatterCols(
                 LhsAdd(lhs, tbl[row].global, tbl[col].global,
                        local_lhs[<<tbl[row].local, tbl[col].local>>]),
                 tbl, nfree, local_lhs, row, col + 1)

\* outer loop: row = 0 .. nb_dofs - 1; acc is <<lhs, rhs>>
RECURSIVE ScatterRows(_, _, _, _, _, _)
ScatterRows(acc, tbl, nfree, local_lhs, local_rhs, row) ==
    IF row > Len(tbl) THEN acc
    ELSE IF tbl[row].global >= nfree
         THEN ScatterRows(acc, tbl, nfree, local_lhs, local_rhs, row + 1)
         ELSE ScatterRows(
                 <<ScatterCols(acc[1], tbl, nfree, local_lhs, row, row),
                   [acc[2] EXCEPT ![tbl[row].global] =
                                      @ + local_rhs[tbl[row].local]]>>,
                 tbl, nfree, local_lhs, local_rhs, row + 1)

\* the body of the element loop of compute, for element i (0-based)
ComputeScatter(acc, i) ==
    ScatterRows(acc, m_index_table[i + 1], m_nb_free_dofs,
                elem_lhs[i + 1], elem_rhs[i + 1], 1)

\* the third pipeline filter of compute_parallel, for element i
PipelineScatter(acc, i) ==
    ScatterRows(acc, m_index_table[i + 1], m_nb_free_dofs,
                elem_lhs[i + 1], elem_rhs[i + 1], 1)

SetZero(f) == [k \in DOMAIN f |-> 0]

NbElements == Len(element_dofs)

AsmKinds == {"compute", "compute_parallel", "assemble_parallel"}

(* ---------------------------- System::compute -------------------------- *)

\* entry of compute: the zeroing loops (System.h:274-282)
ComputeEnter(from) ==
    /\ m_lhs' = SetZero(m_lhs)
    /\ m_rhs' = SetZero(m_rhs)
    /\ index' = 0
    /\ caller' = from
    /\ pc' = "compute"
    /\ asm_start' = <<m_lhs, m_rhs>>
    /\ asm_contribs' = 0

ComputeBegin ==
    /\ pc = "idle"
    /\ ops_left > 0
    /\ ops_left' = ops_left - 1
    /\ ComputeEnter("top")
    /\ op' = "compute"
    /\ prev_op' = op
    /\ UNCHANGED <<cfgVars, reduceVars, structVars, dof_delta, dof_residual, m_x,
                   m_target, m_residual, m_stopping_reason, tokens, opts,
                   iteration, analyze_calls, solveHist>>

ComputeElement ==
    /\ pc = "compute"
    /\ index < NbElements
    /\ LET acc == ComputeScatter(<<m_lhs, m_rhs>>, index) IN
         /\ m_lhs' = acc[1]
         /\ m_rhs' = acc[2]
    /\ index' = index + 1
    /\ asm_contribs' = asm_contribs + 1
    /\ UNCHANGED <<cfgVars, reduceVars, structVars, dof_delta, dof_residual, m_x,
                   m_target, m_residual, m_stopping_reason, caller, tokens,
                   opts, iteration, analyze_calls, solveHist, op, prev_op,
                   asm_start, pc, ops_left>>

ComputeReturn ==
    /\ pc = "compute"
    /\ index >= NbElements
    /\ pc' = IF caller = "solve" THEN "solve_residual" ELSE "idle"
    /\ solver_log' = IF caller = "solve"
                      THEN Append(solver_log,
                                  [call |-> "compute", lhs |-> m_lhs])
                      ELSE solver_log
    /\ UNCHANGED <<cfgVars, reduceVars, structVars, dof_delta, dof_residual, m_lhs,
                   m_rhs, m_x, m_target, m_residual, m_stopping_reason,
                   localVars, analyze_calls, solveCounts, asmHist, ops_left>>

(* ------------------------ System::compute_parallel --------------------- *)

\* max_number_of_live_tokens of tbb::parallel_pipeline
MaxTokens == 8

InFlight == {e \in DOMAIN tokens :
                tokens[e] \in {"computing", "computed", "scattering"}}

\* entry: nothing is zeroed, index = 0, the pipeline starts
ParallelBegin ==
    /\ pc = "idle"
    /\ ops_left > 0
    /\ ops_left' = ops_left - 1
    /\ index' = 0
    /\ tokens' = [e \in 0..(NbElements - 1) |-> "pending"]
    /\ pc' = "pipeline"
    /\ caller' = "top"
    /\ op' = "compute_parallel"
    /\ prev_op' = op
    /\ asm_start' = <<m_lhs, m_rhs>>
    /\ asm_contribs' = 0
    /\ UNCHANGED <<cfgVars, reduceVars, structVars, dof_delta, dof_residual, m_lhs,
                   m_rhs, m_x, m_target, m_residual, m_stopping_reason,
                   opts, iteration, analyze_calls, solveHist>>

\* first filter (serial): hands out the next element index
PipelineInput ==
    /\ pc = "pipeline"
    /\ index < NbElements
    /\ Cardinality(InFlight) < MaxTokens
    /\ tokens' = [tokens EXCEPT ![index] = "computing"]
    /\ index' = index + 1
    /\ UNCHANGED <<cfgVars, reduceVars, structVars, dof_delta, dof_residual, m_lhs,
                   m_rhs, m_x, m_target, m_residual, m_stopping_reason,
                   caller, opts, iteration, analyze_calls, solveHist,
                   asmHist, pc, ops_left>>

\* second filter (parallel): element->compute
PipelineCompute(i) ==
    /\ pc = "pipeline"
    /\ tokens[i] = "computing"
    /\ tokens' = [tokens EXCEPT ![i] = "computed"]
    /\ UNCHANGED <<cfgVars, reduceVars, structVars, dof_delta, dof_residual, m_lhs,
                   m_rhs, m_x, m_target, m_residual, m_stopping_reason,
                   caller, index, opts, iteration, analyze_calls, solveHist,
                   asmHist, pc, ops_left>>

\* third filter (serial_out_of_order): one token at a time, in any order
PipelineScatterBegin(i) ==
    /\ pc = "pipeline"
    /\ tokens[i] = "computed"
    /\ \A e \in DOMAIN tokens : tokens[e] # "scattering"
    /\ tokens' = [tokens EXCEPT ![i] = "scattering"]
    /\ UNCHANGED <<cfgVars, reduceVars, structVars, dof_delta, dof_residual, m_lhs,
                   m_rhs, m_x, m_target, m_residual, m_stopping_reason,
                   caller, index, opts, iteration, analyze_calls, solveHist,
                   asmHist, pc, ops_left>>

PipelineScatterEnd(i) ==
    /\ pc = "pipeline"
    /\ tokens[i] = "scattering"
    /\ LET acc == PipelineScatter(<<m_lhs, m_rhs>>, i) IN
         /\ m_lhs' = acc[1]
         /\ m_rhs' = acc[2]
    /\ tokens' = [tokens EXCEPT ![i] = "done"]
    /\ asm_contribs' = asm_contribs + 1
    /\ UNCHANGED <<cfgVars, reduceVars, structVars, dof_delta, dof_residual, m_x,
                   m_target, m_residual, m_stopping_reason, caller, index,
                   opts, iteration, analyze_calls, solveHist, op, prev_op,
                   asm_start, pc, ops_left>>

\* the input filter stops the pipeline and all tokens have drained
ParallelReturn ==
    /\ pc = "pipeline"
    /\ index >= NbElements
    /\ \A e \in DOMAIN tokens : tokens[e] = "done"
    /\ pc' = "idle"
    /\ UNCHANGED <<cfgVars, reduceVars, structVars, dof_delta, dof_residual, m_lhs,
                   m_rhs, m_x, m_target, m_residual, m_stopping_reason,
                   localVars, analyze_calls, solveHist, asmHist, ops_left>>

(* --------------------------- Assemble::parallel ------------------------ *)

\* Assemble::operator() for one element of the range; the free test is
\* row_index.global >= m_rhs.size()
AssembleScatter(acc, i) ==
    ScatterRows(acc, m_index_table[i + 1], Cardinality(DOMAIN acc[2]),
                elem_lhs[i + 1], elem_rhs[i + 1], 1)

\* the value arrays an Assemble object maps: those of the system for the
\* object built from (lhs, rhs), the thread's static arrays for a split
StoreOf(b) == IF bodies[b] = SysArrays THEN <<m_lhs, m_rhs>> ELSE tls[bodies[b]]

\* pointwise += of the value arrays (Assemble::join); both sides are read
\* from the same memory when the two objects map the same arrays
JoinValues(x, y) ==
    <<[k \in DOMAIN x[1] |-> x[1][k] + y[1][k]],
      [k \in DOMAIN x[2] |-> x[2][k] + y[2][k]]>>

\* create_lhs / create_rhs: resize and zero the calling thread's arrays
CreateValues == <<SetZero(m_lhs), SetZero(m_rhs)>>

Busy(th) == \E t \in DOMAIN tasks :
               tasks[t].thread = th /\ tasks[t].state \in {"running", "executing"}

\* Assemble result(lhs, rhs) zeroes the system's arrays; parallel_reduce
\* starts the root task on the calling thread unless the range is empty
ReduceBegin ==
    /\ pc = "idle"
    /\ ops_left > 0
    /\ ops_left' = ops_left - 1
    /\ m_lhs' = SetZero(m_lhs)
    /\ m_rhs' = SetZero(m_rhs)
    /\ bodies' = <<SysArrays>>
    /\ live' = {1}
    /\ fins' = <<>>
    /\ tasks' = IF NbElements = 0 THEN <<>>
                ELSE <<[lo |-> 0, hi |-> NbElements, body |-> 1, parent |-> 0,
                        side |-> "root", state |-> "running", thread |-> 0]>>
    /\ pc' = "reduce"
    /\ op' = "assemble_parallel"
    /\ prev_op' = op
    /\ asm_start' = <<m_lhs, m_rhs>>
    /\ asm_contribs' = 0
    /\ UNCHANGED <<cfgVars, structVars, dof_delta, dof_residual, m_x,
                   m_target, m_residual, m_stopping_reason, localVars, tls,
                   analyze_calls, solveHist>>

\* a task that has not started its range splits it in the middle
\* (blocked_range, grainsize 1); it goes on as the left child and the right
\* half is spawned with a copy of the body pointer
ReduceSplit(t) ==
    /\ pc = "reduce"
    /\ tasks[t].state = "running"
    /\ tasks[t].hi - tasks[t].lo > 1
    /\ LET mid == tasks[t].lo + (tasks[t].hi - tasks[t].lo) \div 2
           f == Len(fins) + 1
       IN
       /\ fins' = Append(fins, [parent |-> tasks[t].parent,
                                side |-> tasks[t].side,
                                my_body |-> 0, zombie |-> 0, pending |-> 2])
       /\ tasks' = Append([tasks EXCEPT ![t].hi = mid, ![t].parent = f,
                                        ![t].side = "left"],
                          [lo |-> mid, hi |-> tasks[t].hi,
                           body |-> tasks[t].body, parent |-> f,
                           side |-> "right", state |-> "spawned",
                           thread |-> tasks[t].thread])
    /\ UNCHANGED <<cfgVars, structVars, dof_delta, dof_residual, m_lhs,
                   m_rhs, m_x, m_target, m_residual, m_stopping_reason,
                   localVars, tls, bodies, live, analyze_calls, solveHist,
                   asmHist, pc, ops_left>>

\* an idle thread takes a spawned right child.  When the left sibling has
\* not finished (my_body of the parent is still null) the task builds its
\* own body with Assemble(Assemble&, tbb::split) on that thread.
ReduceStart(t, th) ==
    /\ pc = "reduce"
    /\ tasks[t].state = "spawned"
    /\ ~Busy(th)
    /\ LET f == tasks[t].parent
           b == Len(bodies) + 1
       IN
       IF fins[f].my_body = 0
       THEN /\ tls' = [tls EXCEPT ![th] = CreateValues]
            /\ bodies' = Append(bodies, th)
            /\ live' = live \cup {b}
            /\ fins' = [fins EXCEPT ![f].zombie = b]
            /\ tasks' = [tasks EXCEPT ![t].state = "running",
                                      ![t].thread = th, ![t].body = b]
       ELSE /\ tasks' = [tasks EXCEPT ![t].state = "running",
                                      ![t].thread = th]
            /\ UNCHANGED <<tls, bodies, live, fins>>
    /\ UNCHANGED <<cfgVars, structVars, dof_delta, dof_residual, m_lhs,
                   m_rhs, m_x, m_target, m_residual, m_stopping_reason,
                   localVars, analyze_calls, solveHist, asmHist, pc,
                   ops_left>>

\* operator() adds the next element of the task's range to its body
ReduceExec(t) ==
    /\ pc = "reduce"
    /\ tasks[t].state \in {"running", "executing"}
    /\ tasks[t].lo < tasks[t].hi
    /\ LET acc == AssembleScatter(StoreOf(tasks[t].body), tasks[t].lo) IN
         IF bodies[tasks[t].body] = SysArrays
         THEN /\ m_lhs' = acc[1]
              /\ m_rhs' = acc[2]
              /\ tls' = tls
         ELSE /\ tls' = [tls EXCEPT ![bodies[tasks[t].body]] = acc]
              /\ UNCHANGED <<m_lhs, m_rhs>>
    /\ tasks' = [tasks EXCEPT ![t].state = "executing", ![t].lo = @ + 1]
    /\ asm_contribs' = asm_contribs + 1
    /\ UNCHANGED <<cfgVars, structVars, dof_delta, dof_residual, m_x,
                   m_target, m_residual, m_stopping_reason, localVars,
                   bodies, live, fins, analyze_calls, solveHist, op, prev_op,
                   asm_start, pc, ops_left>>

\* a task is through its range: a left child publishes its body in the
\* parent; the root task that never split ends the reduction
ReduceTaskDone(t) ==
    /\ pc = "reduce"
    /\ tasks[t].state = "executing"
    /\ tasks[t].lo >= tasks[t].hi
    /\ tasks' = [tasks EXCEPT ![t].state = "done"]
    /\ IF tasks[t].side = "root"
       THEN /\ pc' = "idle"
            /\ fins' = fins
       ELSE /\ pc' = pc
            /\ fins' = [fins EXCEPT
                          ![tasks[t].parent].pending = @ - 1,
                          ![tasks[t].parent].my_body =
                              IF tasks[t].side = "left" THEN tasks[t].body
                                                        ELSE @]
    /\ UNCHANGED <<cfgVars, structVars, dof_delta, dof_residual, m_lhs,
                   m_rhs, m_x, m_target, m_residual, m_stopping_reason,
                   localVars, tls, bodies, live, analyze_calls, solveHist,
                   asmHist, ops_left>>

\* finish_reduce::execute, once both children are done: join the body the
\* right child built, then publish my_body upwards
ReduceJoin(f) ==
    /\ pc = "reduce"
    /\ fins[f].pending = 0
    /\ LET z == fins[f].zombie
           b == fins[f].my_body
           sum == JoinValues(StoreOf(b), StoreOf(z))
       IN
       /\ IF z = 0 THEN UNCHANGED <<m_lhs, m_rhs, tls, live>>
          ELSE /\ live' = live \ {z}
               /\ IF bodies[b] = SysArrays
                  THEN /\ m_lhs' = sum[1]
                       /\ m_rhs' = sum[2]
                       /\ tls' = tls
                  ELSE /\ tls' = [tls EXCEPT ![bodies[b]] = sum]
                       /\ UNCHANGED <<m_lhs, m_rhs>>
       /\ IF fins[f].side = "root"
          THEN /\ pc' = "idle"
               /\ fins' = [fins EXCEPT ![f].pending = -1]
          ELSE /\ pc' = pc
               /\ fins' = [fins EXCEPT
                             ![f].pending = -1,
                             ![fins[f].parent].pending = @ - 1,
                             ![fins[f].parent].my_body =
                                 IF fins[f].side = "left" THEN b ELSE @]
    /\ UNCHANGED <<cfgVars, structVars, dof_delta, dof_residual, m_x,
                   m_target, m_residual, m_stopping_reason, localVars,
                   bodies, tasks, analyze_calls, solveHist, asmHist,
                   ops_left>>

\* an empty range: parallel_reduce returns at once
ReduceEmpty ==
    /\ pc = "reduce"
    /\ tasks = <<>>
    /\ pc' = "idle"
    /\ UNCHANGED <<cfgVars, structVars, dof_delta, dof_residual, m_lhs,
                   m_rhs, m_x, m_target, m_residual, m_stopping_reason,
                   localVars, reduceVars, analyze_calls, solveHist, asmHist,
                   ops_left>>

(* ----------------------------- System::solve --------------------------- *)

\* option values a caller may pass
Lambdas == {1, 2}

MaxIters == (-1)..MaxIterOpt

Tols == {0, 2}

\* coefficients the linear solver may write into x
XVals == {0, 1}

RECURSIVE SumSq(_, _)
SumSq(v, i) ==
    IF i \notin DOMAIN v THEN 0 ELSE v[i] * v[i] + SumSq(v, i + 1)

\* a comparison that also accepts a norm equal to the tolerance
NormLessOrEqual(v, tol) == tol >= 0 /\ SumSq(v, 0) <= tol * tol

\* v.norm() < tol, for the Euclidean norm
NormLess(v, tol) == tol > 0 /\ SumSq(v, 0) < tol * tol

\* m_target[i] = m_dofs[i].target(), scaled when lambda != 1.0
Target(lambda) ==
    [i \in 0..(m_nb_free_dofs - 1) |->
        IF lambda # 1 THEN dof_target[m_dofs[i + 1]] * lambda
                      ELSE dof_target[m_dofs[i + 1]]]

\* an update loop that starts at index 1
RECURSIVE UpdateDofsSkipFirst(_, _)
UpdateDofsSkipFirst(delta, i) ==
    IF i >= m_nb_free_dofs THEN delta
    ELSE IF i = 0 THEN UpdateDofsSkipFirst(delta, 1)
    ELSE UpdateDofsSkipFirst([delta EXCEPT ![m_dofs[i + 1]] = @ - m_x[i]],
                             i + 1)

\* an update that adds the correction
RECURSIVE UpdateDofsPlus(_, _)
UpdateDofsPlus(delta, i) ==
    IF i >= m_nb_free_dofs THEN delta
    ELSE UpdateDofsPlus([delta EXCEPT ![m_dofs[i + 1]] = @ + m_x[i]], i + 1)

\* m_dofs[i].set_delta(m_dofs[i].delta() - m_x(i)) for i = 0..F-1
RECURSIVE UpdateDofs(_, _)
UpdateDofs(delta, i) ==
    IF i >= m_nb_free_dofs THEN delta
    ELSE UpdateDofs([delta EXCEPT ![m_dofs[i + 1]] = @ - m_x[i]], i + 1)

\* m_dofs[i].set_residual(m_residual(i)) for i = 0..F-1
RECURSIVE StoreResiduals(_, _)
StoreResiduals(res, i) ==
    IF i >= m_nb_free_dofs THEN res
    ELSE StoreResiduals([res EXCEPT ![m_dofs[i + 1]] = m_residual[i]], i + 1)

\* entry: read the options, set up the target (System.h:391-404)
SolveEnter(lambdas, maxiters, rtols, xtols) ==
    /\ pc = "idle"
    /\ ops_left > 0
    /\ ops_left' = ops_left - 1
    /\ \E lambda \in lambdas, maxiter \in maxiters, rtol \in rtols,
          xtol \in xtols :
         /\ opts' = [lambda |-> lambda, maxiter |-> maxiter, rtol |-> rtol,
                     xtol |-> xtol]
         /\ m_target' = Target(lambda)
    /\ iteration' = 0
    /\ pc' = "solve_loop"
    /\ set_matrix_calls' = 0
    /\ solver_solve_calls' = 0
    /\ nb_assemblies' = 0
    /\ nb_updates' = 0
    /\ outcome' = "running"
    /\ delta_start' = dof_delta
    /\ op' = "solve"
    /\ prev_op' = op
    /\ UNCHANGED <<cfgVars, reduceVars, structVars, dof_delta, dof_residual, m_lhs,
                   m_rhs, m_x, m_residual, m_stopping_reason, caller, index,
                   tokens, analyze_calls, delta_before, solver_log,
                   asm_start, asm_contribs>>

\* solve called with any of the option values above
SolveBegin == SolveEnter(Lambdas, MaxIters, Tols, Tols)

\* a loop test that stops only when the counter meets the limit
AtLimitEquals == iteration = opts.maxiter

\* a loop test that stops one iteration late
AtLimitLate == iteration > opts.maxiter

\* a loop test that stops one iteration early
AtLimitEarly == iteration + 1 >= opts.maxiter

\* the test at the loop head
AtLimit == iteration >= opts.maxiter

\* loop head: the iteration limit is reached
SolveLimit ==
    /\ pc = "solve_loop"
    /\ AtLimit
    /\ m_stopping_reason' = 2
    /\ pc' = "solve_finish"
    /\ UNCHANGED <<cfgVars, reduceVars, structVars, dof_delta, dof_residual, m_lhs,
                   m_rhs, m_x, m_target, m_residual, localVars,
                   analyze_calls, solveHist, asmHist, ops_left>>

\* loop head otherwise: compute(options) is entered
SolveAssemble ==
    /\ pc = "solve_loop"
    /\ ~AtLimit
    /\ ComputeEnter("solve")
    /\ nb_assemblies' = nb_assemblies + 1
    /\ UNCHANGED <<cfgVars, reduceVars, structVars, dof_delta, dof_residual, m_x,
                   m_target, m_residual, m_stopping_reason, tokens, opts,
                   iteration, analyze_calls, set_matrix_calls,
                   solver_solve_calls, nb_updates, delta_before, delta_start,
                   outcome, solver_log, op, prev_op, ops_left>>

\* residual and the rtol test (System.h:420-434)
SolveResidual ==
    /\ pc = "solve_residual"
    /\ m_residual' = [i \in DOMAIN m_rhs |-> m_rhs[i] - m_target[i]]
    /\ IF NormLess(m_residual', opts.rtol)
       THEN /\ m_stopping_reason' = 0
            /\ pc' = "solve_finish"
       ELSE /\ m_stopping_reason' = m_stopping_reason
            /\ pc' = "solve_linear"
    /\ UNCHANGED <<cfgVars, reduceVars, structVars, dof_delta, dof_residual, m_lhs,
                   m_rhs, m_x, m_target, localVars, analyze_calls, solveHist,
                   asmHist, ops_left>>

\* a solve iteration that does not hand the matrix to the solver
SolverCallsNoSetMatrix(lhs) == <<[call |-> "solve", lhs |-> lhs]>>

\* m_solver->set_matrix(m_lhs); m_solver->solve(m_residual, m_x);
SolverCalls(lhs) ==
    <<[call |-> "set_matrix", lhs |-> lhs], [call |-> "solve", lhs |-> lhs]>>

\* a solve that catches the solver's error and ends the loop as if the
\* iteration limit had been reached
SolveLinearCaught ==
    /\ pc = "solve_linear"
    /\ set_matrix_calls' = set_matrix_calls + 1
    /\ \/ /\ solver_solve_calls' = solver_solve_calls + 1
          /\ m_x' \in [0..(m_nb_free_dofs - 1) -> XVals]
          /\ delta_before' = dof_delta
          /\ pc' = "solve_update"
          /\ outcome' = outcome
          /\ m_stopping_reason' = m_stopping_reason
          /\ solver_log' = solver_log \o SolverCalls(m_lhs)
       \/ /\ solver_solve_calls' = solver_solve_calls
          /\ pc' = "solve_finish"
          /\ outcome' = "raised"
          /\ m_stopping_reason' = 2
          /\ solver_log' = Append(solver_log,
                                  [call |-> "set_matrix", lhs |-> m_lhs])
          /\ UNCHANGED <<m_x, delta_before>>
    /\ UNCHANGED <<cfgVars, reduceVars, structVars, dof_delta, dof_residual, m_lhs,
                   m_rhs, m_target, m_residual, localVars,
                   analyze_calls, nb_assemblies, nb_updates, delta_start,
                   asmHist, ops_left>>

\* set_matrix and solve on the linear solver (System.h:436-439).  The
\* solver is outside the repository: it may write any x, or raise, which
\* leaves solve at once.  Through a null m_solver the calls are undefined.
SolveLinear ==
    /\ pc = "solve_linear"
    /\ \/ /\ set_matrix_calls' = set_matrix_calls + 1
          /\ solver_solve_calls' = solver_solve_calls + 1
          /\ m_x' \in [0..(m_nb_free_dofs - 1) -> XVals]
          /\ delta_before' = dof_delta
          /\ pc' = "solve_update"
          /\ outcome' = outcome
          /\ solver_log' = solver_log \o SolverCalls(m_lhs)
       \/ /\ set_matrix_calls' = set_matrix_calls + 1
          /\ solver_solve_calls' \in {solver_solve_calls,
                                      solver_solve_calls + 1}
          /\ pc' = IF m_solver = "null" THEN "crashed" ELSE "idle"
          /\ outcome' = "raised"
          /\ solver_log' =
                IF solver_solve_calls' = solver_solve_calls
                THEN Append(solver_log,
                            [call |-> "set_matrix", lhs |-> m_lhs])
                ELSE solver_log \o SolverCalls(m_lhs)
          /\ UNCHANGED <<m_x, delta_before>>
    /\ UNCHANGED <<cfgVars, reduceVars, structVars, dof_delta, dof_residual, m_lhs,
                   m_rhs, m_target, m_residual, m_stopping_reason, localVars,
                   analyze_calls, nb_assemblies, nb_updates, delta_start,
                   asmHist, ops_left>>

\* update of the free DoFs and the xtol test (System.h:441-454)
SolveUpdate ==
    /\ pc = "solve_update"
    /\ dof_delta' = UpdateDofs(dof_delta, 0)
    /\ nb_updates' = nb_updates + 1
    /\ IF NormLess(m_x, opts.xtol)
       THEN /\ m_stopping_reason' = 1
            /\ pc' = "solve_finish"
            /\ iteration' = iteration
       ELSE /\ m_stopping_reason' = m_stopping_reason
            /\ pc' = "solve_loop"
            /\ iteration' = iteration + 1
    /\ UNCHANGED <<cfgVars, reduceVars, structVars, dof_residual, m_lhs, m_rhs, m_x,
                   m_target, m_residual, caller, index, tokens, opts,
                   analyze_calls, set_matrix_calls, solver_solve_calls,
                   nb_assemblies, delta_before, delta_start, outcome,
                   solver_log, asmHist, ops_left>>

\* after the loop: the residual is stored in the free DoFs
SolveFinish ==
    /\ pc = "solve_finish"
    /\ dof_residual' = StoreResiduals(dof_residual, 0)
    /\ pc' = "idle"
    /\ outcome' = "returned"
    /\ UNCHANGED <<cfgVars, reduceVars, structVars, dof_delta, m_lhs, m_rhs, m_x,
                   m_target, m_residual, m_stopping_reason, localVars,
                   analyze_calls, set_matrix_calls, solver_solve_calls,
                   nb_assemblies, nb_updates, delta_before, delta_start,
                   solver_log, asmHist, ops_left>>

(* ------------------------- construction only --------------------------- *)

InitCtor == InitWith(CanonicalLists, SolverNames, {1}, {1}, {0})

NextCtor == Construct

SpecCtor == InitCtor /\ [][NextCtor]_vars

(* --------------------- serial and pipelined assembly ------------------- *)

InitAsm == InitWith(CanonicalLists, {"ldlt"}, {1}, {1}, {0})

NextAsm ==
    \/ Construct
    \/ ComputeBegin
    \/ ComputeElement
    \/ ComputeReturn
    \/ ParallelBegin
    \/ PipelineInput
    \/ \E i \in 0..(NbElements - 1) : PipelineCompute(i)
    \/ \E i \in 0..(NbElements - 1) : PipelineScatterBegin(i)
    \/ \E i \in 0..(NbElements - 1) : PipelineScatterEnd(i)
    \/ ParallelReturn

SpecAsm == InitAsm /\ [][NextAsm]_vars

(* ----------------------------- Newton driver --------------------------- *)

MaxSolveElements == 1

SolveLists == {eds \in CanonicalLists : Len(eds) <= MaxSolveElements}

InitSolve == InitWith(SolveLists, {"ldlt", "qr"}, {1}, OutVals, {0, 1})

NextSolve ==
    \/ Construct
    \/ SolveBegin
    \/ SolveLimit
    \/ SolveAssemble
    \/ ComputeElement
    \/ ComputeReturn
    \/ SolveResidual
    \/ SolveLinear
    \/ SolveUpdate
    \/ SolveFinish

SpecSolve == InitSolve /\ [][NextSolve]_vars

\* the steps solve takes between its entry and its return
SolveStep ==
    \/ SolveLimit
    \/ SolveAssemble
    \/ ComputeElement
    \/ ComputeReturn
    \/ SolveResidual
    \/ SolveLinear
    \/ SolveUpdate
    \/ SolveFinish

\* one solver and the default lambda, which take no part in the loop's control
InitTerm == InitWith(SolveLists, {"ldlt"}, {1}, OutVals, {0, 1})

\* solve called with any maxiter, rtol and xtol
TermBegin == SolveEnter({1}, MaxIters, Tols, Tols)

NextTerm ==
    \/ Construct
    \/ TermBegin
    \/ SolveStep

\* solve runs on one thread and calls only functions that come back: a
\* call that has begun keeps taking its next step
SpecTerm == InitTerm /\ [][NextTerm]_vars /\ WF_vars(SolveStep)

(* ------------------------ parallel_reduce assembly --------------------- *)

ReduceLists ==
    {[e \in 1..n |-> IF e % 2 = 1 THEN <<1>> ELSE <<1, 2>>] :
        n \in 0..MaxReduceElements}

InitReduce == InitWith(ReduceLists, {"ldlt"}, {1}, {1}, {0})

NextReduce ==
    \/ Construct
    \/ ReduceBegin
    \/ \E t \in DOMAIN tasks : ReduceSplit(t)
    \/ \E t \in DOMAIN tasks, th \in Threads : ReduceStart(t, th)
    \/ \E t \in DOMAIN tasks : ReduceExec(t)
    \/ \E t \in DOMAIN tasks : ReduceTaskDone(t)
    \/ \E f \in DOMAIN fins : ReduceJoin(f)
    \/ ReduceEmpty

SpecReduce == InitReduce /\ [][NextReduce]_vars

(* ------------------ Newton driver with an exact solver ----------------- *)

\* coefficients of rhs, target, residual, x and the DoF fields are counted
\* in steps of 1 / Grid, so that the halves of the scenarios are exact
Precision == 1

Grid == 2 * Precision

MaxNewtonIter == 5

\* get_or_default(options, "maxiter", 100)
DefaultMaxIter == 100

\* rtol and xtol default to 1e-7, which lies below one step of the grid: a
\* norm of grid values is below 1e-7 exactly when it is below one step
DefaultTol == 1

\* coefficient (r, c) of the symmetric matrix whose upper triangle is lhs
SymAt(lhs, r, c) ==
    LET rc == IF r <= c THEN <<r, c>> ELSE <<c, r>> IN
    IF rc \in DOMAIN lhs THEN lhs[rc] ELSE 0

\* row r of M x, from column c on
RECURSIVE RowTimes(_, _, _, _)
RowTimes(lhs, x, r, c) ==
    IF c \notin DOMAIN x THEN 0
    ELSE SymAt(lhs, r, c) * x[c] + RowTimes(lhs, x, r, c + 1)

\* corrections the scenarios can produce
ExactXVals == 0..Grid

\* the x with M x = b
ExactSolutions(lhs, b) ==
    {x \in [DOMAIN b -> ExactXVals] :
        \A r \in DOMAIN b : RowTimes(lhs, x, r, 0) = b[r]}

\* set_matrix and solve on a direct solver that returns the solution of
\* m_lhs x = m_residual
SolveLinearExact ==
    /\ pc = "solve_linear"
    /\ set_matrix_calls' = set_matrix_calls + 1
    /\ solver_solve_calls' = solver_solve_calls + 1
    /\ m_x' \in ExactSolutions(m_lhs, m_residual)
    /\ delta_before' = dof_delta
    /\ solver_log' = solver_log \o SolverCalls(m_lhs)
    /\ pc' = "solve_update"
    /\ UNCHANGED <<cfgVars, reduceVars, structVars, dof_delta, dof_residual, m_lhs,
                   m_rhs, m_target, m_residual, m_stopping_reason, localVars,
                   analyze_calls, nb_assemblies, nb_updates, delta_start,
                   outcome, asmHist, ops_left>>

\* one element on one DoF
NewtonLists == {<<<<1>>>>}

\* local_lhs = [[1]] or [[2]], local_rhs = [1], target 0
InitNewton == InitWith(NewtonLists, {"ldlt"}, {1, 2}, {Grid}, {0})

\* solve with the default options or with given maxiter, rtol and xtol
NewtonBegin ==
    SolveEnter({1}, (0..MaxNewtonIter) \cup {DefaultMaxIter},
               {0, DefaultTol}, {0, DefaultTol})

NextNewton ==
    \/ Construct
    \/ NewtonBegin
    \/ SolveLimit
    \/ SolveAssemble
    \/ ComputeElement
    \/ ComputeReturn
    \/ SolveResidual
    \/ SolveLinearExact
    \/ SolveUpdate
    \/ SolveFinish

SpecNewton == InitNewton /\ [][NextNewton]_vars

(* ------------------- any sequence of calls on a System ----------------- *)

\* solve with any tolerances
CallsSolveBegin == SolveEnter({1}, {MaxIterOpt}, Tols, Tols)

NextCalls ==
    \/ Construct
    \/ ComputeBegin
    \/ ComputeElement
    \/ ComputeReturn
    \/ ParallelBegin
    \/ PipelineInput
    \/ \E i \in 0..(NbElements - 1) : PipelineCompute(i)
    \/ \E i \in 0..(NbElements - 1) : PipelineScatterBegin(i)
    \/ \E i \in 0..(NbElements - 1) : PipelineScatterEnd(i)
    \/ ParallelReturn
    \/ CallsSolveBegin
    \/ SolveLimit
    \/ SolveAssemble
    \/ SolveResidual
    \/ SolveLinear
    \/ SolveUpdate
    \/ SolveFinish

SpecCalls == InitAsm /\ [][NextCalls]_vars

(* ================================ claims =============================== *)

\* what System::compute leaves in <<m_lhs, m_rhs>>: zero, then every
\* element in input order
RECURSIVE ComputeFrom(_, _)
ComputeFrom(acc, i) ==
    IF i >= NbElements THEN acc ELSE ComputeFrom(ComputeScatter(acc, i), i + 1)

ComputeResult == ComputeFrom(<<SetZero(m_lhs), SetZero(m_rhs)>>, 0)

IsZero(f) == \A k \in DOMAIN f : f[k] = 0

Constructed == pc \notin {"new", "crashed"}

Returned == pc = "idle" /\ op = "solve" /\ outcome = "returned"

Max0(n) == IF n > 0 THEN n ELSE 0

\* C1: when a parallel assembly (compute_parallel, Assemble::parallel) has
\* finished, the LHS values and the RHS are those the serial compute leaves
\* for the same elements, whatever the values were before.
C1_ParallelEqualsSerial ==
    (pc = "idle" /\ op \in {"compute_parallel", "assemble_parallel"})
        => <<m_lhs, m_rhs>> = ComputeResult

\* C2: the step that adds the first element contribution of an assembly
\* finds every LHS value and every RHS entry of the system at zero.
C2_ZeroBeforeFirstContribution ==
    [][(asm_contribs = 0 /\ asm_contribs' = 1)
          => (IsZero(m_lhs) /\ IsZero(m_rhs))]_vars

\* C3: an assembly that directly follows an assembly of the same kind
\* leaves the LHS values and the RHS that the earlier one left.
C3_Idempotent ==
    (pc = "idle" /\ op \in AsmKinds /\ prev_op = op)
        => <<m_lhs, m_rhs>> = asm_start

\* C4: two Assemble objects that are both not yet joined never map the same
\* value arrays.
C4_DistinctArrays ==
    \A b1 \in live, b2 \in live : b1 # b2 => bodies[b1] # bodies[b2]

\* C5: with a linear_solver other than "ldlt" and "lsmr" the constructor
\* ends in an error: analyze_pattern is not called and no System results.
C5_UnknownSolverFails ==
    (pc # "new" /\ linear_solver \notin KnownSolvers)
        => (pc = "failed" /\ analyze_calls = 0)

\* C6: the stopping reason of a System is one of -1, 0, 1, 2; it is -1
\* until solve is called, and one of 0, 1, 2 once a solve call has returned.
C6_StoppingReason ==
    Constructed =>
        /\ m_stopping_reason \in {-1, 0, 1, 2}
        /\ (outcome = "none" => m_stopping_reason = -1)
        /\ (Returned => m_stopping_reason \in {0, 1, 2})

\* C7: when solve returns with reason 0, the norm of rhs - target is
\* strictly below rtol; when it returns with reason 1, the norm of x is
\* strictly below xtol and every free DoF's delta is its delta before the
\* linear solve minus x.
C7_ToleranceExits ==
    Returned =>
        /\ (m_stopping_reason = 0 =>
              /\ opts.rtol > 0
              /\ SumSq([i \in DOMAIN m_rhs |-> m_rhs[i] - m_target[i]], 0)
                    < opts.rtol * opts.rtol)
        /\ (m_stopping_reason = 1 =>
              /\ opts.xtol > 0
              /\ SumSq(m_x, 0) < opts.xtol * opts.xtol
              /\ \A i \in 0..(m_nb_free_dofs - 1) :
                    dof_delta[m_dofs[i + 1]] =
                        delta_before[m_dofs[i + 1]] - m_x[i])

\* a solve call on two free DoFs that returned with reason 1 after a
\* correction that is not zero and differs between the two
C7_Witness ==
    /\ Returned
    /\ m_stopping_reason = 1
    /\ nb_updates = 1
    /\ m_nb_free_dofs = 2
    /\ m_x[0] # m_x[1]

\* C8 as stated: when solve returns with reason 2, exactly maxiter
\* assemblies, linear solves and DoF updates were made in that call.
C8_ExactlyMaxiter ==
    (Returned /\ m_stopping_reason = 2) =>
        /\ nb_assemblies = opts.maxiter
        /\ solver_solve_calls = opts.maxiter
        /\ nb_updates = opts.maxiter

\* C8 amended: when solve returns with reason 2, exactly max(maxiter, 0)
\* assemblies, set_matrix calls, linear solves and DoF updates were made.
C8_ExactlyMaxiterOrNone ==
    (Returned /\ m_stopping_reason = 2) =>
        /\ nb_assemblies = Max0(opts.maxiter)
        /\ set_matrix_calls = Max0(opts.maxiter)
        /\ solver_solve_calls = Max0(opts.maxiter)
        /\ nb_updates = Max0(opts.maxiter)

\* a solve call that ran into a positive limit
C8_Witness ==
    /\ Returned
    /\ m_stopping_reason = 2
    /\ opts.maxiter = MaxIterOpt
    /\ nb_updates = MaxIterOpt
    /\ m_nb_free_dofs > 0

\* C9 as stated: with F = 0 a solve call returns with reason 0 at
\* iteration 0 and has called neither set_matrix nor solve on the solver.
C9_EmptySystem ==
    (Returned /\ m_nb_free_dofs = 0) =>
        /\ m_stopping_reason = 0
        /\ iteration = 0
        /\ set_matrix_calls = 0
        /\ solver_solve_calls = 0

\* C9 amended: with no free DoF, construction with a known solver yields a
\* System, and a solve call with maxiter >= 1 and rtol > 0 returns with
\* reason 0 at iteration 0 after one assembly, without set_matrix or solve.
C9_EmptySystemWithinLimits ==
    /\ (pc # "new" /\ linear_solver \in KnownSolvers) => pc # "crashed"
    /\ (Returned /\ m_nb_free_dofs = 0 /\ opts.maxiter >= 1 /\ opts.rtol > 0)
          => /\ m_stopping_reason = 0
             /\ iteration = 0
             /\ nb_assemblies = 1
             /\ set_matrix_calls = 0
             /\ solver_solve_calls = 0
             /\ nb_updates = 0

\* a system of one element whose DoFs are all fixed, after such a call
C9_Witness ==
    /\ Returned
    /\ NbElements = 1
    /\ m_nb_fixed_dofs > 0
    /\ m_nb_free_dofs = 0
    /\ opts.maxiter >= 1
    /\ opts.rtol > 0

\* the DoF an index-table entry refers to
EntryDof(e, p) == element_dofs[e][m_index_table[e][p].local + 1]

\* C10: after construction every DoF of every element is exactly once in
\* m_dofs, m_dof_indices is a bijection from these DoFs onto 0..N-1 that
\* inverts m_dofs, and entries for the same DoF carry the same global index.
C10_DofsIndexedOnce ==
    pc = "idle" =>
        /\ \A d \in UsedDofs(element_dofs) :
              Cardinality({i \in 1..Len(m_dofs) : m_dofs[i] = d}) = 1
        /\ \A i \in 1..Len(m_dofs) : m_dofs[i] \in UsedDofs(element_dofs)
        /\ DOMAIN m_dof_indices = UsedDofs(element_dofs)
        /\ {m_dof_indices[d] : d \in DOMAIN m_dof_indices}
              = 0..(Len(m_dofs) - 1)
        /\ \A d \in DOMAIN m_dof_indices : m_dofs[m_dof_indices[d] + 1] = d
        /\ \A e1 \in 1..NbElements, e2 \in 1..NbElements :
              \A p1 \in 1..Len(m_index_table[e1]),
                 p2 \in 1..Len(m_index_table[e2]) :
                 EntryDof(e1, p1) = EntryDof(e2, p2)
                    => m_index_table[e1][p1].global
                          = m_index_table[e2][p2].global

\* two elements that share a DoF, one of them listing a DoF twice, with
\* free and fixed DoFs
C10_Witness ==
    /\ pc = "idle"
    /\ NbElements = 2
    /\ Len(element_dofs[1]) = 2
    /\ Len(element_dofs[2]) = 2
    /\ element_dofs[1][1] = element_dofs[1][2]
    /\ element_dofs[2][1] # element_dofs[2][2]
    /\ element_dofs[2][2] = element_dofs[1][1]
    /\ m_nb_free_dofs = 1
    /\ m_nb_fixed_dofs = 1

\* the global index of the DoF at local position l (1-based) of element e
GlobalOf(e, l) == m_dof_indices[element_dofs[e][l]]

\* C11: after construction every global index below F holds a DoF that is
\* not fixed, every index from F to N-1 holds a fixed DoF, and
\* F + nb_fixed_dofs = N.
C11_FreeFixedPartition ==
    pc = "idle" =>
        /\ m_nb_free_dofs + m_nb_fixed_dofs = Len(m_dofs)
        /\ \A i \in 0..(Len(m_dofs) - 1) :
              IF i < m_nb_free_dofs THEN m_dofs[i + 1] \notin dof_fixed
                                    ELSE m_dofs[i + 1] \in dof_fixed

\* a system whose first scanned DoF is fixed and is followed by free DoFs
C11_Witness ==
    /\ pc = "idle"
    /\ NbElements >= 1
    /\ Len(element_dofs[1]) = 2
    /\ element_dofs[1][1] \in dof_fixed
    /\ element_dofs[1][2] \notin dof_fixed
    /\ m_nb_free_dofs = 2
    /\ m_nb_fixed_dofs = 1

\* C12: the index table of element e has k_e entries, its local components
\* are a permutation of 0..k_e-1, every entry's global component is the
\* global index of the DoF at that local position, the entries ascend in
\* global, and the entries with global >= F form a tail.
C12_IndexTables ==
    pc = "idle" =>
        /\ Len(m_index_table) = NbElements
        /\ \A e \in 1..NbElements :
              LET t == m_index_table[e]
                  k == Len(element_dofs[e])
              IN
              /\ Len(t) = k
              /\ {t[p].local : p \in 1..Len(t)} = 0..(k - 1)
              /\ \A p \in 1..Len(t) :
                    t[p].global = GlobalOf(e, t[p].local + 1)
              /\ \A p \in 1..Len(t), q \in 1..Len(t) :
                    p < q => /\ t[p].global <= t[q].global
                             /\ (t[p].global >= m_nb_free_dofs
                                    => t[q].global >= m_nb_free_dofs)

\* an element whose first DoF is fixed and whose second is free: the sort
\* moves local index 1 to the front
C12_Witness ==
    /\ pc = "idle"
    /\ NbElements >= 1
    /\ Len(element_dofs[1]) = 2
    /\ m_index_table[1][1].local = 1
    /\ m_index_table[1][1].global < m_nb_free_dofs
    /\ m_index_table[1][2].global >= m_nb_free_dofs

\* C13: for every element and every pair of its local indices whose DoFs
\* are both free, the position (min, max) of their global indices is a
\* structural entry of the LHS built by the constructor.
C13_PatternSound ==
    pc = "idle" =>
        \A e \in 1..NbElements :
          \A l1 \in 1..Len(element_dofs[e]), l2 \in 1..Len(element_dofs[e]) :
            LET g1 == GlobalOf(e, l1)
                g2 == GlobalOf(e, l2)
            IN
            (g1 < m_nb_free_dofs /\ g2 < m_nb_free_dofs)
                => <<IF g1 < g2 THEN g1 ELSE g2, IF g1 < g2 THEN g2 ELSE g1>>
                      \in DOMAIN m_lhs

\* an element that lists one free DoF twice and an element whose local
\* order is the reverse of the global order
C13_Witness ==
    /\ pc = "idle"
    /\ NbElements = 2
    /\ Len(element_dofs[1]) = 2
    /\ Len(element_dofs[2]) = 2
    /\ element_dofs[1][1] = element_dofs[1][2]
    /\ GlobalOf(2, 1) > GlobalOf(2, 2)
    /\ m_nb_free_dofs = 2

\* C14: every structural entry (r, c) of the LHS has r <= c < F and an
\* element with a DoF of global index r and a DoF of global index c; the
\* number of structural entries of column c is the size of pattern[c].
C14_PatternMinimal ==
    pc = "idle" =>
        /\ \A rc \in DOMAIN m_lhs :
              /\ rc[1] <= rc[2]
              /\ rc[1] \in 0..(m_nb_free_dofs - 1)
              /\ rc[2] \in 0..(m_nb_free_dofs - 1)
              /\ \E e \in 1..NbElements :
                   \E l1 \in 1..Len(element_dofs[e]),
                      l2 \in 1..Len(element_dofs[e]) :
                      GlobalOf(e, l1) = rc[1] /\ GlobalOf(e, l2) = rc[2]
        /\ DOMAIN m_pattern = 0..(m_nb_free_dofs - 1)
        /\ \A c \in 0..(m_nb_free_dofs - 1) :
              /\ Cardinality({rc \in DOMAIN m_lhs : rc[2] = c})
                    = Cardinality(m_pattern[c])
              /\ m_col_nonzeros[c] = Cardinality(m_pattern[c])

\* three free DoFs of which two never share an element: the position of
\* that pair is not structural, the others are
C14_Witness ==
    /\ pc = "idle"
    /\ m_nb_free_dofs = 3
    /\ <<0, 1>> \in DOMAIN m_lhs
    /\ <<1, 2>> \in DOMAIN m_lhs
    /\ <<0, 2>> \notin DOMAIN m_lhs
    /\ Cardinality(DOMAIN m_lhs) = 5

\* solve runs with the default options on a System of one free DoF, first
\* delta 0, whose element returns local_lhs = [[a]] and local_rhs = [1]
DefaultRun(a) ==
    /\ op = "solve"
    /\ m_nb_free_dofs = 1
    /\ elem_lhs[1][<<0, 0>>] = a
    /\ elem_rhs[1][0] = Grid
    /\ dof_target[1] = 0
    /\ delta_start[1] = 0
    /\ opts = [lambda |-> 1, maxiter |-> DefaultMaxIter, rtol |-> DefaultTol,
               xtol |-> DefaultTol]

\* C15 as stated: with one element that always returns [[2]] and [1], one
\* free DoF with target 0 and the default options, solve returns with
\* stopping reason 0 and the DoF's delta is -0.5.
C15_LinearElement ==
    (Returned /\ DefaultRun(2)) =>
        /\ m_stopping_reason = 0
        /\ 2 * dof_delta[1] = -Grid

\* C15 amended: in that scenario the residual stays 1 in every iteration,
\* every iteration subtracts 0.5 from the delta (-0.5 after the first),
\* and solve returns with stopping reason 2 after maxiter = 100
\* iterations with delta -50.
C15_LinearElementRunsToLimit ==
    /\ (pc = "solve_loop" /\ DefaultRun(2))
          => /\ nb_updates = iteration
             /\ 2 * dof_delta[1] = -(iteration * Grid)
    /\ (pc = "solve_linear" /\ DefaultRun(2)) => m_residual[0] = Grid
    /\ (Returned /\ DefaultRun(2))
          => /\ m_stopping_reason = 2
             /\ nb_updates = DefaultMaxIter
             /\ dof_delta[1] = -(50 * Grid)

\* the scenario's solve call has returned
C15_Witness ==
    /\ Returned
    /\ DefaultRun(2)
    /\ nb_assemblies = DefaultMaxIter
    /\ dof_residual[1] = Grid

\* C16: a solve call with rtol = 0, xtol = 0 and maxiter = m >= 0 returns
\* with stopping reason 2 after exactly m corrections; with one free DoF of
\* target 0 and an element that always returns [[1]] and [1], the delta
\* after solve is the delta before solve minus m.
C16_IterationLimit ==
    (Returned /\ opts.rtol = 0 /\ opts.xtol = 0 /\ opts.maxiter >= 0) =>
        /\ m_stopping_reason = 2
        /\ nb_updates = opts.maxiter
        /\ solver_solve_calls = opts.maxiter
        /\ (m_nb_free_dofs = 1 /\ elem_lhs[1][<<0, 0>>] = 1)
              => dof_delta[1] = delta_start[1] - opts.maxiter * Grid

\* maxiter = 5 starting from delta 0 gives delta -5
C16_Witness ==
    /\ Returned
    /\ opts.rtol = 0
    /\ opts.xtol = 0
    /\ opts.maxiter = 5
    /\ m_nb_free_dofs = 1
    /\ elem_lhs[1][<<0, 0>>] = 1
    /\ delta_start[1] = 0
    /\ dof_delta[1] = -(5 * Grid)

\* positions of the calls of one kind in the log
LogCalls(name) ==
    {i \in 1..Len(solver_log) : solver_log[i].call = name}

\* C17 as stated: analyze_pattern is called exactly once, at construction
\* and before any other solver call; every assembly of solve is followed by
\* a set_matrix call with its LHS values; every solver solve call directly
\* follows a set_matrix call.
C17_CallProtocol ==
    pc # "new" =>
        /\ LogCalls("analyze_pattern") = {1}
        /\ \A i \in LogCalls("compute") :
              /\ i < Len(solver_log)
                    => /\ solver_log[i + 1].call = "set_matrix"
                       /\ solver_log[i + 1].lhs = solver_log[i].lhs
              /\ Returned => i < Len(solver_log)
        /\ \A i \in LogCalls("solve") :
              solver_log[i - 1].call = "set_matrix"

\* C17 amended: analyze_pattern is called exactly once, at construction and
\* before any other solver call; every iteration that does not leave the
\* loop at the residual test calls set_matrix once, with the LHS values of
\* its own assembly and directly after it; every solver solve call directly
\* follows that set_matrix call.
C17_CallProtocolAfterResidualTest ==
    pc # "new" =>
        /\ LogCalls("analyze_pattern") = {1}
        /\ analyze_calls = 1
        /\ \A i \in LogCalls("set_matrix") :
              /\ solver_log[i - 1].call = "compute"
              /\ solver_log[i].lhs = solver_log[i - 1].lhs
              /\ solver_log[i].lhs = ComputeResult[1]
        /\ \A i \in LogCalls("solve") :
              /\ solver_log[i - 1].call = "set_matrix"
              /\ solver_log[i].lhs = solver_log[i - 1].lhs
        /\ pc = "solve_update"
              => solver_log[Len(solver_log)].call = "solve"
        /\ Returned =>
              /\ set_matrix_calls =
                    nb_assemblies - (IF m_stopping_reason = 0 THEN 1 ELSE 0)
              /\ solver_solve_calls = set_matrix_calls

\* a solve call of two full iterations on two free DoFs
C17_Witness ==
    /\ Returned
    /\ m_nb_free_dofs = 2
    /\ set_matrix_calls = 2
    /\ solver_solve_calls = 2
    /\ Len(solver_log) = 7

\* the pairs <<e, l>> of an element and a local index (1-based) whose DoF
\* has global index g
RhsTerms(g) ==
    {t \in (1..NbElements) \X (1..MaxElemDofs) :
        /\ t[2] <= Len(element_dofs[t[1]])
        /\ GlobalOf(t[1], t[2]) = g}

RECURSIVE SumRhsTerms(_)
SumRhsTerms(T) ==
    IF T = {} THEN 0
    ELSE LET t == CHOOSE u \in T : TRUE IN
         elem_rhs[t[1]][t[2] - 1] + SumRhsTerms(T \ {t})

\* the triples <<e, p, q>> of an element and two index-table positions
\* p <= q with global(p) = r and global(q) = c
LhsTerms(r, c) ==
    {t \in (1..NbElements) \X (1..MaxElemDofs) \X (1..MaxElemDofs) :
        /\ t[2] <= t[3]
        /\ t[3] <= Len(m_index_table[t[1]])
        /\ m_index_table[t[1]][t[2]].global = r
        /\ m_index_table[t[1]][t[3]].global = c}

RECURSIVE SumLhsTerms(_)
SumLhsTerms(T) ==
    IF T = {} THEN 0
    ELSE LET t == CHOOSE u \in T : TRUE
             tbl == m_index_table[t[1]]
         IN
         elem_lhs[t[1]][<<tbl[t[2]].local, tbl[t[3]].local>>]
            + SumLhsTerms(T \ {t})

\* C18: after System::compute, rhs[g] is the sum of local_rhs[l] over all
\* elements and local indices l with global index g, for every free g; the
\* LHS value at every structural position (r, c) is the sum of
\* local_lhs[local(p), local(q)] over all elements and table positions
\* p <= q with global(p) = r and global(q) = c; the rows and columns of
\* fixed DoFs add nothing, and nothing lies outside the free block.
C18_SerialResult ==
    (pc = "idle" /\ op = "compute") =>
        /\ DOMAIN m_rhs = 0..(m_nb_free_dofs - 1)
        /\ \A g \in DOMAIN m_rhs : m_rhs[g] = SumRhsTerms(RhsTerms(g))
        /\ DOMAIN m_lhs = DOMAIN BuildLhs(m_pattern, m_nb_free_dofs)
        /\ \A rc \in DOMAIN m_lhs :
              m_lhs[rc] = SumLhsTerms(LhsTerms(rc[1], rc[2]))

\* two elements that share their free DoF and have a fixed DoF each, after
\* compute
C18_Witness ==
    /\ pc = "idle"
    /\ op = "compute"
    /\ NbElements = 2
    /\ m_nb_free_dofs = 1
    /\ m_nb_fixed_dofs = 2
    /\ Cardinality(RhsTerms(0)) = 2
    /\ m_lhs[<<0, 0>>] > elem_lhs[2][<<1, 1>>]

\* C19: no step of compute, compute_parallel or solve changes the DoF
\* order, the index map, the index tables, the pattern or the set of
\* structural entries of the LHS that the constructor left.
C19_StructureFrame ==
    [][pc # "new" =>
          /\ m_dofs' = m_dofs
          /\ m_dof_indices' = m_dof_indices
          /\ m_nb_free_dofs' = m_nb_free_dofs
          /\ m_nb_fixed_dofs' = m_nb_fixed_dofs
          /\ m_index_table' = m_index_table
          /\ m_pattern' = m_pattern
          /\ m_col_nonzeros' = m_col_nonzeros
          /\ DOMAIN m_lhs' = DOMAIN m_lhs]_vars

\* a System with an off-diagonal structural entry after a solve call that
\* followed a compute_parallel call
C19_Witness ==
    /\ Returned
    /\ prev_op = "compute_parallel"
    /\ nb_assemblies >= 1
    /\ <<0, 1>> \in DOMAIN m_lhs
    /\ m_lhs[<<0, 1>>] # 0

\* a task that is between its start and the end of its range: its worker
\* is in, or about to enter, operator() on the task's accumulator
Writing(t) ==
    /\ tasks[t].state \in {"running", "executing"}
    /\ tasks[t].lo < tasks[t].hi

\* C20: no two workers write the same LHS value array or RHS array at the
\* same time: at most one token of compute_parallel is in the scatter
\* stage, and two tasks of Assemble::parallel that are in operator() at the
\* same time write into different arrays.
C20_NoConcurrentWrites ==
    /\ Cardinality({e \in DOMAIN tokens : tokens[e] = "scattering"}) <= 1
    /\ pc = "reduce" =>
          \A t1 \in DOMAIN tasks, t2 \in DOMAIN tasks :
              (t1 # t2 /\ Writing(t1) /\ Writing(t2))
                  => bodies[tasks[t1].body] # bodies[tasks[t2].body]

\* DoF d is one of the free DoFs of the System
IsFreeDof(d) ==
    d \in DOMAIN m_dof_indices /\ m_dof_indices[d] < m_nb_free_dofs

\* C21: the delta of a DoF changes only in the update step of solve, which
\* follows the linear solve of an iteration whose assembly has finished and
\* sets every free DoF's delta to delta - x[i] and leaves every other DoF;
\* the updates of a solve call are as many as its linear solves that came
\* back, one per iteration; no step of an assembly changes a DoF field.
C21_DofFrame ==
    /\ [][/\ dof_delta' # dof_delta => pc = "solve_update"
          /\ dof_residual' # dof_residual => pc = "solve_finish"
          /\ pc \in {"compute", "pipeline"}
                => (dof_delta' = dof_delta /\ dof_residual' = dof_residual)
          /\ pc = "solve_update" =>
                /\ nb_assemblies = iteration + 1
                /\ nb_updates = iteration
                /\ solver_log[Len(solver_log)].call = "solve"
                /\ nb_updates' = nb_updates + 1
                /\ \A d \in Dofs :
                      dof_delta'[d] =
                          IF IsFreeDof(d)
                          THEN dof_delta[d] - m_x[m_dof_indices[d]]
                          ELSE dof_delta[d]]_vars
    /\ [](pc = "solve_loop"
            => (nb_updates = iteration /\ nb_assemblies = iteration))
    /\ [](\A d \in Dofs : ~IsFreeDof(d) => dof_delta[d] = 0)

\* a solve call after a compute_parallel call on a System with a fixed DoF
\* has changed the delta of both free DoFs
C21_Witness ==
    /\ Returned
    /\ prev_op = "compute_parallel"
    /\ m_nb_free_dofs = 2
    /\ m_nb_fixed_dofs = 1
    /\ nb_updates = 2
    /\ \A i \in 1..2 : dof_delta[m_dofs[i]] # 0

\* C22: after every solve call that returns, the call has assembled at
\* least once and the residual field of every free DoF i is rhs[i] minus
\* target[i] of that call's last assembly, with the target scaled by that
\* call's lambda; the residual field of every other DoF was never written.
C22_ResidualStored ==
    Returned =>
        /\ nb_assemblies >= 1
        /\ \A i \in 0..(m_nb_free_dofs - 1) :
              dof_residual[m_dofs[i + 1]] =
                  ComputeResult[2][i] - Target(opts.lambda)[i]
        /\ \A d \in Dofs : ~IsFreeDof(d) => dof_residual[d] = 0

\* C23: every solve call terminates: a call that has begun comes to its
\* end, by return or by the solver's error, and at no moment has it made
\* more than max(maxiter, 0) assemblies, whatever rtol, xtol, the element
\* values and the solver's x are.
C23_SolveTerminates ==
    /\ [](op = "solve" => nb_assemblies <= Max0(opts.maxiter))
    /\ (outcome = "running") ~> (outcome \in {"returned", "raised"})

C23_Witness ==
    /\ Returned
    /\ opts.maxiter = MaxIterOpt
    /\ opts.rtol = 0
    /\ opts.xtol = 0
    /\ nb_assemblies = MaxIterOpt
    /\ m_nb_free_dofs >= 1

\* the step in which set_matrix or solve of a constructed solver raises
SolverRaises ==
    pc = "solve_linear" /\ m_solver # "null" /\ outcome' = "raised"

\* C24: when set_matrix or solve raises in iteration k, solve is left at
\* once with that error: the raising step changes no DoF field, no system
\* vector and no stopping reason, the call has by then made k + 1
\* assemblies, k updates and no solver call after the failing one, and it
\* wrote no stopping reason, which is written only on the way to the
\* normal return.
C24_SolverError ==
    /\ [][SolverRaises =>
              /\ pc' = "idle"
              /\ dof_delta' = dof_delta
              /\ dof_residual' = dof_residual
              /\ m_stopping_reason' = m_stopping_reason
              /\ m_x' = m_x
              /\ UNCHANGED <<m_lhs, m_rhs, m_residual, iteration,
                             nb_assemblies, nb_updates>>]_vars
    /\ [][(op = "solve" /\ m_stopping_reason' # m_stopping_reason)
              => (outcome = "running" /\ pc' = "solve_finish")]_vars
    /\ [](pc = "solve_finish" => outcome = "running")
    /\ []((outcome = "raised" /\ m_solver # "null") =>
              /\ pc = "idle"
              /\ nb_assemblies = iteration + 1
              /\ nb_updates = iteration
              /\ set_matrix_calls = iteration + 1
              /\ solver_solve_calls \in {iteration, iteration + 1}
              /\ solver_log[Len(solver_log)].call \in {"set_matrix", "solve"})

C24_Witness ==
    /\ outcome = "raised"
    /\ pc = "idle"
    /\ m_solver = "ldlt"
    /\ m_nb_free_dofs >= 1
    /\ iteration = 1
    /\ nb_updates = 1
    /\ dof_delta # delta_start
    /\ solver_solve_calls = 1

====
